---- MODULE Spec2Model ----
(***************************************************************************)
(* Transaction-driven inventory ledger of src/inventory_system.py:         *)
(* InventoryManager.record_transaction, update_inventory_quantity,         *)
(* get_product_quantity and the reports get_inventory_levels,              *)
(* get_transaction_history and get_low_stock_items, over the sqlite3       *)
(* connection of DatabaseManager.                                          *)
(*                                                                         *)
(* The database is the committed state (disk) plus, per connection, the    *)
(* statements executed but not yet committed (pending).  Every handler is  *)
(* a small program over statements; Spec runs a handler to completion in   *)
(* one action, SpecConc interleaves the statements of two connections;     *)
(* SpecFault injects storage errors, SpecIds passes unknown ids and        *)
(* SpecReport records dated transactions for two products and reads the    *)
(* reports; SpecRace interleaves the statements of a count with those of   *)
(* a receipt on a second connection; SpecCli drives record_transaction     *)
(* through the commands of src/inventory_cli.py.                           *)
(***************************************************************************)
EXTENDS Integers, Sequences, FiniteSets, TLC

\* ------------------------------------------------------------------ bounds
MaxWrites == 2          \* ledger appends plus recounts before new writes stop
MaxCalls == 3           \* interleaved calls, done or running

\* ------------------------------------------------------------ master data
NULL == 0                           \* None: an omitted id, date or limit
Conns == {1, 2}                     \* InventorySystem instances on one db file
MainConn == CHOOSE c \in Conns : \A d \in Conns : c <= d
Products == {1, 2}                  \* rows of products
Locations == {1, 2}                 \* rows of locations
ProductIds == {1, 3}                \* ids a caller may pass (3 is unknown)
Stocked == Products \cap ProductIds \* products the write calls are about
LocationIds == Locations \cup {3}   \* ids a caller may pass (3 is unknown)
TypeIds == {1, 2, 3, 4, 5, 99}      \* type ids a caller may pass (99 unknown)
Quantities == {0 - 1, 0, 1, 2}      \* quantities a caller may pass
NewQuantities == {0, 2}             \* recount values a caller may pass
Now == 1                            \* datetime.now() formatted: the current second
CountedAts == {NULL}                \* counted_at a caller may pass (omitted)
Pairs == Products \X Locations
DefaultLimit == 100                 \* limit of get_transaction_history when omitted

\* products.name, locations.name: the rank of the name in text order
product_name(p) == p                \* "Laptop Computer" < "Printer Paper"
location_name(l) == l               \* "Main Warehouse" < "Retail Store"
\* products.min_stock_level
min_stock_level(p) == CASE p = 1 -> 1 [] p = 2 -> 2 [] OTHER -> 0

\* transaction_types relation: 8 seeded types and their effect sign
TransactionTypeIds == 1 .. 8
affects_inventory(t) ==
    CASE t \in {1, 4, 6} -> 1
      [] t \in {2, 5, 7, 8} -> 0 - 1
      [] OTHER -> 0

VARIABLES disk, conn, call, last, returned, recounts
vars == <<disk, conn, call, last, returned, recounts>>

\* ---------------------------------------------------------------- storage
NoOp == [kind |-> "none", product_id |-> 0, location_id |-> 0, type |-> 0,
         quantity |-> 0, id |-> 0, counted_at |-> NULL, stamp |-> FALSE,
         date |-> NULL]

LedgerInsert(id, p, l, t, q, date) ==
    [NoOp EXCEPT !.kind = "ledger_insert", !.id = id, !.product_id = p,
                 !.location_id = l, !.type = t, !.quantity = q, !.date = date]
InventoryInsert(p, l, q, at) ==
    [NoOp EXCEPT !.kind = "inventory_insert", !.product_id = p,
                 !.location_id = l, !.quantity = q, !.counted_at = at]
InventoryUpdate(p, l, q, stamp, at) ==
    [NoOp EXCEPT !.kind = "inventory_update", !.product_id = p,
                 !.location_id = l, !.quantity = q, !.stamp = stamp,
                 !.counted_at = at]

LedgerRow(op) ==
    [transaction_id |-> op.id, product_id |-> op.product_id,
     location_id |-> op.location_id, transaction_type_id |-> op.type,
     quantity |-> op.quantity, transaction_date |-> op.date]

\* mutant: INSERT OR REPLACE on a fixed key, so a new entry replaces the last
ApplyOp_replace(db, op) ==
    IF op.kind = "ledger_insert"
    THEN [db EXCEPT !.inventory_transactions =
             IF @ = <<>> THEN <<LedgerRow(op)>>
             ELSE [@ EXCEPT ![Len(@)] = LedgerRow(op)]]
    ELSE IF op.kind = "inventory_insert"
    THEN [db EXCEPT !.inventory = Append(@,
             [inventory_id |-> Len(@) + 1, product_id |-> op.product_id,
              location_id |-> op.location_id, quantity |-> op.quantity,
              last_counted_at |-> op.counted_at])]
    ELSE db

\* mutant: a row whose quantity is set to 0 is removed from the table
ApplyOp_purge(db, op) ==
    CASE op.kind = "ledger_insert" ->
           [db EXCEPT !.inventory_transactions = Append(@, LedgerRow(op))]
      [] op.kind = "inventory_insert" ->
           [db EXCEPT !.inventory = Append(@,
               [inventory_id |-> Len(@) + 1, product_id |-> op.product_id,
                location_id |-> op.location_id, quantity |-> op.quantity,
                last_counted_at |-> op.counted_at])]
      [] op.kind = "inventory_update" ->
           LET hit(r) == /\ r.product_id = op.product_id
                         /\ r.location_id = op.location_id
               upd(r) ==
                 IF hit(r)
                 THEN [r EXCEPT !.quantity = op.quantity,
                                !.last_counted_at =
                                    IF op.stamp THEN op.counted_at ELSE @]
                 ELSE r
           IN IF op.quantity = 0
              THEN [db EXCEPT !.inventory = SelectSeq(@, LAMBDA r : ~hit(r))]
              ELSE [db EXCEPT !.inventory = [i \in 1 .. Len(@) |-> upd(@[i])]]
      [] OTHER -> db

ApplyOp(db, op) ==
    CASE op.kind = "ledger_insert" ->
           [db EXCEPT !.inventory_transactions = Append(@, LedgerRow(op))]
      [] op.kind = "inventory_insert" ->
           [db EXCEPT !.inventory = Append(@,
               [inventory_id |-> Len(@) + 1, product_id |-> op.product_id,
                location_id |-> op.location_id, quantity |-> op.quantity,
                last_counted_at |-> op.counted_at])]
      [] op.kind = "inventory_update" ->
           LET upd(r) ==
                 IF r.product_id = op.product_id /\ r.location_id = op.location_id
                 THEN [r EXCEPT !.quantity = op.quantity,
                                !.last_counted_at =
                                    IF op.stamp THEN op.counted_at ELSE @]
                 ELSE r
           IN [db EXCEPT !.inventory = [i \in 1 .. Len(@) |-> upd(@[i])]]
      [] OTHER -> db

RECURSIVE ApplyAll(_, _)
ApplyAll(db, ops) ==
    IF ops = <<>> THEN db ELSE ApplyAll(ApplyOp(db, Head(ops)), Tail(ops))

\* what connection c reads: the committed state under its own pending writes
View(s, c) == ApplyAll(s.disk, s.conn[c].pending)

\* SELECT ... FROM inventory WHERE product_id = ? AND location_id = ?
SelectInventory(db, p, l) ==
    SelectSeq(db.inventory, LAMBDA r : r.product_id = p /\ r.location_id = l)

\* mutant: the connection is opened without the foreign-key pragma
foreign_keys_off == FALSE

\* conn.execute("PRAGMA foreign_keys = ON") in get_connection
foreign_keys == TRUE

\* referential constraints of inventory_transactions and inventory
ForeignKeyViolation(p, l) ==
    foreign_keys /\ (p \notin Products \/ l \notin Locations)

\* mutant: the inventory table carries no UNIQUE constraint
UniqueViolation_off(db, p, l) == FALSE

\* UNIQUE (product_id, location_id) of inventory
UniqueViolation(db, p, l) == SelectInventory(db, p, l) # <<>>

\* ------------------------------------------------------ reporting queries
\* the orders in which rows that compare equal under ORDER BY may come out:
\* tie[rowid] is the rank of the row among its equals
Ties(n) == {t \in [1 .. n -> 1 .. n] : \A i, j \in 1 .. n : t[i] = t[j] => i = j}

\* ORDER BY key DESC: the positions of keys from the largest key down
RECURSIVE OrderByDesc(_, _, _)
OrderByDesc(keys, ranks, todo) ==
    IF todo = {} THEN <<>>
    ELSE LET first == CHOOSE i \in todo : \A j \in todo \ {i} :
                          \/ keys[i] > keys[j]
                          \/ keys[i] = keys[j] /\ ranks[i] < ranks[j]
         IN <<first>> \o OrderByDesc(keys, ranks, todo \ {first})

\* LIMIT n: a negative n is no limit
Limit(rows, n) ==
    IF n < 0 \/ n >= Len(rows) THEN rows ELSE SubSeq(rows, 1, n)

\* mutant: the history is ordered oldest first
get_transaction_history_asc(db, p, l, start_date, end_date, limit, tie) ==
    LET match(e) ==
            /\ e.product_id \in Products /\ e.location_id \in Locations
            /\ e.transaction_type_id \in TransactionTypeIds
            /\ p = NULL \/ e.product_id = p
            /\ l = NULL \/ e.location_id = l
            /\ start_date = NULL \/ e.transaction_date >= start_date
            /\ end_date = NULL \/ e.transaction_date <= end_date
        rows == SelectSeq(db.inventory_transactions, match)
        keys == [i \in 1 .. Len(rows) |-> 0 - rows[i].transaction_date]
        ranks == [i \in 1 .. Len(rows) |-> tie[rows[i].transaction_id]]
        order == OrderByDesc(keys, ranks, 1 .. Len(rows))
    IN Limit([i \in 1 .. Len(rows) |-> rows[order[i]]], limit)

\* SELECT t.* ... FROM inventory_transactions t JOIN products JOIN locations
\* JOIN transaction_types WHERE 1=1 [AND ...] ORDER BY t.transaction_date DESC
\* LIMIT {limit}
get_transaction_history(db, p, l, start_date, end_date, limit, tie) ==
    LET match(e) ==
            /\ e.product_id \in Products /\ e.location_id \in Locations
            /\ e.transaction_type_id \in TransactionTypeIds
            /\ p = NULL \/ e.product_id = p
            /\ l = NULL \/ e.location_id = l
            /\ start_date = NULL \/ e.transaction_date >= start_date
            /\ end_date = NULL \/ e.transaction_date <= end_date
        rows == SelectSeq(db.inventory_transactions, match)
        keys == [i \in 1 .. Len(rows) |-> rows[i].transaction_date]
        ranks == [i \in 1 .. Len(rows) |-> tie[rows[i].transaction_id]]
        order == OrderByDesc(keys, ranks, 1 .. Len(rows))
    IN Limit([i \in 1 .. Len(rows) |-> rows[order[i]]], limit)

\* SELECT i.*, p.name, l.name FROM inventory i JOIN products p JOIN locations l
\* WHERE 1=1 [AND ...] ORDER BY p.name, l.name
get_inventory_levels(db, p, l, tie) ==
    LET match(r) ==
            /\ r.product_id \in Products /\ r.location_id \in Locations
            /\ p = NULL \/ r.product_id = p
            /\ l = NULL \/ r.location_id = l
        rows == SelectSeq(db.inventory, match)
        width == Cardinality(Locations) + 1
        keys == [i \in 1 .. Len(rows) |->
                    0 - (product_name(rows[i].product_id) * width
                         + location_name(rows[i].location_id))]
        ranks == [i \in 1 .. Len(rows) |-> tie[rows[i].inventory_id]]
        order == OrderByDesc(keys, ranks, 1 .. Len(rows))
    IN [i \in 1 .. Len(rows) |->
           [inventory_id |-> rows[order[i]].inventory_id,
            product_id |-> rows[order[i]].product_id,
            location_id |-> rows[order[i]].location_id,
            quantity |-> rows[order[i]].quantity,
            product_name |-> product_name(rows[order[i]].product_id),
            location_name |-> location_name(rows[order[i]].location_id)]]

\* SUM(quantity) of the inventory rows of a product, 0 when it has none
RECURSIVE total_quantity(_, _)
total_quantity(rows, p) ==
    IF rows = <<>> THEN 0
    ELSE (IF Head(rows).product_id = p THEN Head(rows).quantity ELSE 0)
         + total_quantity(Tail(rows), p)

\* the view vw_reorder_list: the products whose total is below their minimum,
\* each with the deficit as quantity_to_order
RECURSIVE vw_reorder_list(_, _)
vw_reorder_list(db, todo) ==
    IF todo = {} THEN <<>>
    ELSE LET p == CHOOSE x \in todo : \A y \in todo : x <= y
             total == total_quantity(db.inventory, p)
             row == [product_id |-> p, total_quantity |-> total,
                     min_stock_level |-> min_stock_level(p),
                     quantity_to_order |-> min_stock_level(p) - total]
         IN (IF total < min_stock_level(p) THEN <<row>> ELSE <<>>)
            \o vw_reorder_list(db, todo \ {p})

\* mutant: the report is ordered by quantity_to_order ascending
get_low_stock_items_asc(db, tie) ==
    LET rows == vw_reorder_list(db, Products)
        keys == [i \in 1 .. Len(rows) |-> 0 - rows[i].quantity_to_order]
        ranks == [i \in 1 .. Len(rows) |-> tie[rows[i].product_id]]
        order == OrderByDesc(keys, ranks, 1 .. Len(rows))
    IN [i \in 1 .. Len(rows) |-> rows[order[i]]]

\* mutant: the report stops after its first row
get_low_stock_items_first(db, tie) ==
    LET rows == vw_reorder_list(db, Products)
        keys == [i \in 1 .. Len(rows) |-> rows[i].quantity_to_order]
        ranks == [i \in 1 .. Len(rows) |-> tie[rows[i].product_id]]
        order == OrderByDesc(keys, ranks, 1 .. Len(rows))
    IN Limit([i \in 1 .. Len(rows) |-> rows[order[i]]], 1)

\* SELECT * FROM vw_reorder_list ORDER BY quantity_to_order DESC
get_low_stock_items(db, tie) ==
    LET rows == vw_reorder_list(db, Products)
        keys == [i \in 1 .. Len(rows) |-> rows[i].quantity_to_order]
        ranks == [i \in 1 .. Len(rows) |-> tie[rows[i].product_id]]
        order == OrderByDesc(keys, ranks, 1 .. Len(rows))
    IN [i \in 1 .. Len(rows) |-> rows[order[i]]]

\* ------------------------------------------------------- sqlite3 locking
OtherHolds(s, c, locks) == \E d \in Conns \ {c} : s.conn[d].lock \in locks

\* a statement that reads: SHARED is taken, and kept while in a transaction
ReadLock(cn) ==
    IF cn.inTxn /\ cn.lock = "NONE" THEN [cn EXCEPT !.lock = "SHARED"] ELSE cn

\* a statement that writes: RESERVED, one holder at a time; the sqlite3
\* module opens a transaction before a DML statement when none is open
WriteBusy(s, c) == s.conn[c].lock # "RESERVED" /\ OtherHolds(s, c, {"RESERVED"})
WriteLock(cn, op) ==
    [cn EXCEPT !.inTxn = TRUE, !.lock = "RESERVED", !.pending = Append(@, op)]

\* conn.commit(): the pending writes need EXCLUSIVE, so no other reader
CommitBusy(s, c) ==
    s.conn[c].pending # <<>> /\ OtherHolds(s, c, {"SHARED", "RESERVED"})
IdleConn == [inTxn |-> FALSE, lock |-> "NONE", pending |-> <<>>]
Commit(s, c) ==
    [s EXCEPT !.disk = ApplyAll(@, s.conn[c].pending), !.conn[c] = IdleConn]
\* conn.rollback()
Rollback(s, c) == [s EXCEPT !.conn[c] = IdleConn]


\* ------------------------------------------------------------ call frames
IdleCall ==
    [op |-> "idle", pc |-> "idle", product_id |-> 0, location_id |-> 0,
     transaction_type_id |-> 0, quantity |-> 0, counted_at |-> NULL,
     failAt |-> "none", affects |-> 0, transaction_id |-> 0,
     found |-> FALSE, current |-> 0, error |-> "none", at |-> "none",
     transaction_date |-> NULL]

Goto(s, c, pc) == [s EXCEPT !.call[c].pc = pc]
Throw(s, c, err, handler) ==
    [s EXCEPT !.call[c].error = err, !.call[c].at = s.call[c].pc,
              !.call[c].pc = handler]

\* ----------------------------------- InventoryManager.record_transaction
\* cursor.execute("BEGIN TRANSACTION")
rt_begin(s, c) ==
    IF s.conn[c].inTxn
    THEN Throw(s, c, "OperationalError", "rt_except")
    ELSE Goto([s EXCEPT !.conn[c].inTxn = TRUE], c, "rt_lookup")

\* mutant: a missing registry row is read as "no effect" instead of raising
rt_lookup_unchecked(s, c) ==
    LET f == s.call[c]
    IN Goto([s EXCEPT !.conn[c] = ReadLock(@),
                      !.call[c].affects =
                          IF f.transaction_type_id \in TransactionTypeIds
                          THEN affects_inventory(f.transaction_type_id) ELSE 0],
            c, "rt_insert")

\* SELECT affects_inventory FROM transaction_types WHERE transaction_type_id = ?
rt_lookup(s, c) ==
    LET f == s.call[c]
        s1 == [s EXCEPT !.conn[c] = ReadLock(@)]
    IN IF f.transaction_type_id \notin TransactionTypeIds
       THEN Throw(s1, c, "ValueError", "rt_except")
       ELSE Goto([s1 EXCEPT !.call[c].affects =
                                affects_inventory(f.transaction_type_id)],
                 c, "rt_insert")

\* mutant: the ledger INSERT is committed on its own (as execute_insert does),
\* so the statements after it run outside the transaction
rt_insert_autocommit(s, c) ==
    LET f == s.call[c]
        id == Len(View(s, c).inventory_transactions) + 1
        date == IF f.transaction_date = NULL THEN Now ELSE f.transaction_date
        op == LedgerInsert(id, f.product_id, f.location_id,
                           f.transaction_type_id, f.quantity, date)
        s1 == [s EXCEPT !.conn[c] = WriteLock(@, op),
                        !.call[c].transaction_id = id]
    IN IF WriteBusy(s, c) \/ CommitBusy(s1, c)
       THEN Throw(s, c, "OperationalError", "rt_except")
       ELSE Goto(Commit(s1, c), c,
                 IF f.affects # 0 THEN "rt_select" ELSE "rt_commit")

\* mutant: the inventory step is taken whatever affects_inventory is
rt_insert_always_select(s, c) ==
    LET f == s.call[c]
        id == Len(View(s, c).inventory_transactions) + 1
        date == IF f.transaction_date = NULL THEN Now ELSE f.transaction_date
        op == LedgerInsert(id, f.product_id, f.location_id,
                           f.transaction_type_id, f.quantity, date)
    IN IF f.failAt = "insert" \/ WriteBusy(s, c)
       THEN Throw(s, c, "OperationalError", "rt_except")
       ELSE IF ForeignKeyViolation(f.product_id, f.location_id)
       THEN Throw(s, c, "IntegrityError", "rt_except")
       ELSE Goto([s EXCEPT !.conn[c] = WriteLock(@, op),
                           !.call[c].transaction_id = id],
                 c, "rt_select")

\* mutant: cursor.lastrowid is read before the INSERT is executed
rt_insert_stale_id(s, c) ==
    LET f == s.call[c]
        id == Len(View(s, c).inventory_transactions) + 1
        date == IF f.transaction_date = NULL THEN Now ELSE f.transaction_date
        op == LedgerInsert(id, f.product_id, f.location_id,
                           f.transaction_type_id, f.quantity, date)
    IN IF f.failAt = "insert" \/ WriteBusy(s, c)
       THEN Throw(s, c, "OperationalError", "rt_except")
       ELSE IF ForeignKeyViolation(f.product_id, f.location_id)
       THEN Throw(s, c, "IntegrityError", "rt_except")
       ELSE Goto([s EXCEPT !.conn[c] = WriteLock(@, op),
                           !.call[c].transaction_id = id - 1],
                 c, IF f.affects # 0 THEN "rt_select" ELSE "rt_commit")

\* INSERT INTO inventory_transactions (...); transaction_id = cursor.lastrowid
rt_insert(s, c) ==
    LET f == s.call[c]
        id == Len(View(s, c).inventory_transactions) + 1
        date == IF f.transaction_date = NULL THEN Now ELSE f.transaction_date
        op == LedgerInsert(id, f.product_id, f.location_id,
                           f.transaction_type_id, f.quantity, date)
    IN IF f.failAt = "insert" \/ WriteBusy(s, c)
       THEN Throw(s, c, "OperationalError", "rt_except")
       ELSE IF ForeignKeyViolation(f.product_id, f.location_id)
       THEN Throw(s, c, "IntegrityError", "rt_except")
       ELSE Goto([s EXCEPT !.conn[c] = WriteLock(@, op),
                           !.call[c].transaction_id = id],
                 c, IF f.affects # 0 THEN "rt_select" ELSE "rt_commit")

\* SELECT inventory_id, quantity FROM inventory WHERE product_id = ? AND ...
rt_select(s, c) ==
    LET f == s.call[c]
        rows == SelectInventory(View(s, c), f.product_id, f.location_id)
    IN IF f.failAt = "select"
       THEN Throw(s, c, "OperationalError", "rt_except")
       ELSE Goto([s EXCEPT !.conn[c] = ReadLock(@),
                           !.call[c].found = (rows # <<>>),
                           !.call[c].current =
                               IF rows # <<>> THEN rows[1].quantity ELSE 0],
                 c, "rt_write")

\* mutant: the change is the bare quantity, without the sign of the type
rt_write_unsigned(s, c) ==
    LET f == s.call[c]
        inventory_change == f.quantity
        op == IF f.found
              THEN InventoryUpdate(f.product_id, f.location_id,
                                   f.current + inventory_change, FALSE, NULL)
              ELSE InventoryInsert(f.product_id, f.location_id,
                                   inventory_change, NULL)
    IN Goto([s EXCEPT !.conn[c] = WriteLock(@, op)], c, "rt_commit")

\* mutant: the UPDATE stores the change instead of quantity + change
rt_write_overwrite(s, c) ==
    LET f == s.call[c]
        inventory_change == f.quantity * f.affects
        op == IF f.found
              THEN InventoryUpdate(f.product_id, f.location_id,
                                   inventory_change, FALSE, NULL)
              ELSE InventoryInsert(f.product_id, f.location_id,
                                   inventory_change, NULL)
    IN Goto([s EXCEPT !.conn[c] = WriteLock(@, op)], c, "rt_commit")

\* mutant: a change that would leave the quantity negative is refused
rt_write_floor(s, c) ==
    LET f == s.call[c]
        inventory_change == f.quantity * f.affects
        op == IF f.found
              THEN InventoryUpdate(f.product_id, f.location_id,
                                   f.current + inventory_change, FALSE, NULL)
              ELSE InventoryInsert(f.product_id, f.location_id,
                                   inventory_change, NULL)
    IN IF f.current + inventory_change < 0
       THEN Throw(s, c, "ValueError", "rt_except")
       ELSE Goto([s EXCEPT !.conn[c] = WriteLock(@, op)], c, "rt_commit")

\* mutant: the UPDATE leaves the location out of its WHERE clause
rt_write_all_locations(s, c) ==
    LET f == s.call[c]
        inventory_change == f.quantity * f.affects
        other == CHOOSE l \in Locations : l # f.location_id
        upd(l) == InventoryUpdate(f.product_id, l,
                                  f.current + inventory_change, FALSE, NULL)
    IN IF f.found
       THEN Goto([s EXCEPT !.conn[c] =
                      WriteLock(WriteLock(@, upd(f.location_id)), upd(other))],
                 c, "rt_commit")
       ELSE Goto([s EXCEPT !.conn[c] =
                      WriteLock(@, InventoryInsert(f.product_id, f.location_id,
                                                   inventory_change, NULL))],
                 c, "rt_commit")

\* UPDATE inventory SET quantity = ? ... / INSERT INTO inventory (...)
rt_write(s, c) ==
    LET f == s.call[c]
        inventory_change == f.quantity * f.affects
        op == IF f.found
              THEN InventoryUpdate(f.product_id, f.location_id,
                                   f.current + inventory_change, FALSE, NULL)
              ELSE InventoryInsert(f.product_id, f.location_id,
                                   inventory_change, NULL)
    IN IF f.failAt = "write" \/ WriteBusy(s, c)
       THEN Throw(s, c, "OperationalError", "rt_except")
       ELSE IF ~f.found /\ (ForeignKeyViolation(f.product_id, f.location_id)
                            \/ UniqueViolation(View(s, c), f.product_id,
                                               f.location_id))
       THEN Throw(s, c, "IntegrityError", "rt_except")
       ELSE Goto([s EXCEPT !.conn[c] = WriteLock(@, op)], c, "rt_commit")

\* conn.commit(); return transaction_id
rt_commit(s, c) ==
    IF s.call[c].failAt = "commit" \/ CommitBusy(s, c)
    THEN Throw(s, c, "OperationalError", "rt_except")
    ELSE Goto(Commit(s, c), c, "returned")

\* mutant: the handler commits what was written instead of rolling it back
rt_except_commit(s, c) ==
    Goto([s EXCEPT !.disk = ApplyAll(@, s.conn[c].pending),
                   !.conn[c] = IdleConn], c, "raised")

\* mutant: the exception is re-raised without the rollback
rt_except_no_rollback(s, c) == Goto(s, c, "raised")

\* except Exception: conn.rollback(); raise
rt_except(s, c) == Goto(Rollback(s, c), c, "raised")

\* --------------------------------- InventoryManager.get_product_quantity
\* mutant: the WHERE clause leaves out the location
get_product_quantity_any_location(db, p, l) ==
    LET results == SelectSeq(db.inventory, LAMBDA r : r.product_id = p)
    IN IF results # <<>> THEN results[1].quantity ELSE 0

\* results = execute_query(SELECT quantity FROM inventory WHERE ...);
\* return results[0]["quantity"] if results else 0
get_product_quantity(db, p, l) ==
    LET results == SelectInventory(db, p, l)
    IN IF results # <<>> THEN results[1].quantity ELSE 0

gq_select(s, c) ==
    LET f == s.call[c]
    IN IF f.failAt = "select"
       THEN Throw(s, c, "OperationalError", "raised")
       ELSE Goto([s EXCEPT !.conn[c] = ReadLock(@),
                           !.call[c].current =
                               get_product_quantity(View(s, c), f.product_id,
                                                    f.location_id)],
                 c, IF f.op = "get_product_quantity"
                    THEN "returned" ELSE "uq_write")

\* ---------------------------- InventoryManager.update_inventory_quantity
\* mutant: the recount also writes an Adjustment entry to the ledger
uq_write_ledgered(s, c) ==
    LET f == s.call[c]
        at == IF f.counted_at = NULL THEN Now ELSE f.counted_at
        exists == f.current > 0
        id == Len(View(s, c).inventory_transactions) + 1
        entry == LedgerInsert(id, f.product_id, f.location_id, 3, 1, at)
        op == IF exists
              THEN InventoryUpdate(f.product_id, f.location_id, f.quantity,
                                   TRUE, at)
              ELSE InventoryInsert(f.product_id, f.location_id, f.quantity, at)
    IN IF ~exists /\ (ForeignKeyViolation(f.product_id, f.location_id)
                      \/ UniqueViolation(View(s, c), f.product_id,
                                         f.location_id))
       THEN Throw(s, c, "IntegrityError", "uq_except")
       ELSE Goto([s EXCEPT !.conn[c] = WriteLock(WriteLock(@, entry), op)],
                 c, "uq_commit")

\* mutant: the UPDATE adds the count to the quantity on hand
uq_write_adds(s, c) ==
    LET f == s.call[c]
        at == IF f.counted_at = NULL THEN Now ELSE f.counted_at
        exists == f.current > 0
        op == IF exists
              THEN InventoryUpdate(f.product_id, f.location_id,
                                   f.current + f.quantity, TRUE, at)
              ELSE InventoryInsert(f.product_id, f.location_id, f.quantity, at)
    IN IF f.failAt = "write" \/ WriteBusy(s, c)
       THEN Throw(s, c, "OperationalError", "uq_except")
       ELSE IF ~exists /\ (ForeignKeyViolation(f.product_id, f.location_id)
                           \/ UniqueViolation(View(s, c), f.product_id,
                                              f.location_id))
       THEN Throw(s, c, "IntegrityError", "uq_except")
       ELSE Goto([s EXCEPT !.conn[c] = WriteLock(@, op)], c, "uq_commit")

\* if current_quantity > 0: execute_update(UPDATE ...) else execute_insert(INSERT ...)
uq_write(s, c) ==
    LET f == s.call[c]
        at == IF f.counted_at = NULL THEN Now ELSE f.counted_at
        exists == f.current > 0
        op == IF exists
              THEN InventoryUpdate(f.product_id, f.location_id, f.quantity,
                                   TRUE, at)
              ELSE InventoryInsert(f.product_id, f.location_id, f.quantity, at)
    IN IF f.failAt = "write" \/ WriteBusy(s, c)
       THEN Throw(s, c, "OperationalError", "uq_except")
       ELSE IF ~exists /\ (ForeignKeyViolation(f.product_id, f.location_id)
                           \/ UniqueViolation(View(s, c), f.product_id,
                                              f.location_id))
       THEN Throw(s, c, "IntegrityError", "uq_except")
       ELSE Goto([s EXCEPT !.conn[c] = WriteLock(@, op)], c, "uq_commit")

\* DatabaseManager.execute_update / execute_insert: conn.commit()
uq_commit(s, c) ==
    IF s.call[c].failAt = "commit" \/ CommitBusy(s, c)
    THEN Throw(s, c, "OperationalError", "uq_except")
    ELSE Goto(Commit(s, c), c, "returned")

\* DatabaseManager.execute_update / execute_insert: conn.rollback(); raise
uq_except(s, c) == Goto(Rollback(s, c), c, "raised")

\* ------------------------------------------- reports through execute_query
\* mutant: the levels query creates the row it is asked about (get-or-create)
il_select_creates(s, c) ==
    LET f == s.call[c]
        op == InventoryInsert(f.product_id, f.location_id, 0, NULL)
        s1 == IF /\ f.product_id \in Products /\ f.location_id \in Locations
                 /\ SelectInventory(View(s, c), f.product_id, f.location_id) = <<>>
              THEN Commit([s EXCEPT !.conn[c] = WriteLock(@, op)], c)
              ELSE s
    IN Goto([s1 EXCEPT !.call[c].rows =
                           get_inventory_levels(View(s, c), f.product_id,
                                                f.location_id, f.tie)],
            c, "returned")

\* InventoryManager.get_inventory_levels
il_select(s, c) ==
    LET f == s.call[c]
    IN IF f.failAt = "select"
       THEN Throw(s, c, "OperationalError", "raised")
       ELSE Goto([s EXCEPT !.conn[c] = ReadLock(@),
                           !.call[c].rows =
                               get_inventory_levels(View(s, c), f.product_id,
                                                    f.location_id, f.tie)],
                 c, "returned")

\* InventoryManager.get_transaction_history
th_select(s, c) ==
    LET f == s.call[c]
    IN IF f.failAt = "select"
       THEN Throw(s, c, "OperationalError", "raised")
       ELSE Goto([s EXCEPT !.conn[c] = ReadLock(@),
                           !.call[c].rows =
                               get_transaction_history(View(s, c), f.product_id,
                                   f.location_id, f.start_date, f.end_date,
                                   f.limit, f.tie)],
                 c, "returned")

\* InventoryManager.get_low_stock_items
ls_select(s, c) ==
    LET f == s.call[c]
    IN IF f.failAt = "select"
       THEN Throw(s, c, "OperationalError", "raised")
       ELSE Goto([s EXCEPT !.conn[c] = ReadLock(@),
                           !.call[c].rows = get_low_stock_items(View(s, c), f.tie)],
                 c, "returned")

\* ------------------------------------------------------------ interpreter
Done(f) == f.pc \in {"returned", "raised", "idle"}

Step(s, c) ==
    LET pc == s.call[c].pc
    IN CASE pc = "rt_begin" -> rt_begin(s, c)
         [] pc = "rt_lookup" -> rt_lookup(s, c)
         [] pc = "rt_insert" -> rt_insert(s, c)
         [] pc = "rt_select" -> rt_select(s, c)
         [] pc = "rt_write" -> rt_write(s, c)
         [] pc = "rt_commit" -> rt_commit(s, c)
         [] pc = "rt_except" -> rt_except(s, c)
         [] pc = "gq_select" -> gq_select(s, c)
         [] pc = "uq_write" -> uq_write(s, c)
         [] pc = "uq_commit" -> uq_commit(s, c)
         [] pc = "uq_except" -> uq_except(s, c)
         [] pc = "il_select" -> il_select(s, c)
         [] pc = "th_select" -> th_select(s, c)
         [] pc = "ls_select" -> ls_select(s, c)
         [] OTHER -> s

RECURSIVE Run(_, _)
Run(s, c) == IF Done(s.call[c]) THEN s ELSE Run(Step(s, c), c)

Entry(op) ==
    CASE op = "record_transaction" -> "rt_begin"
      [] op = "get_inventory_levels" -> "il_select"
      [] op = "get_transaction_history" -> "th_select"
      [] op = "get_low_stock_items" -> "ls_select"
      [] OTHER -> "gq_select"

Frame(op, p, l, t, q, at, failAt) ==
    [IdleCall EXCEPT !.op = op, !.pc = Entry(op), !.product_id = p,
                     !.location_id = l, !.transaction_type_id = t,
                     !.quantity = q, !.counted_at = at, !.failAt = failAt]

\* record_transaction with the caller's transaction_date
DatedFrame(p, l, t, q, date) ==
    [Frame("record_transaction", p, l, t, q, NULL, "none")
        EXCEPT !.transaction_date = date]
\* the frame of a report: its filters, the order of equal rows, its result
ReportFrame(op, p, l, start_date, end_date, limit, tie) ==
    Frame(op, p, l, 0, 0, NULL, "none")
        @@ [start_date |-> start_date, end_date |-> end_date, limit |-> limit,
            tie |-> tie, rows |-> <<>>]
LevelsFrame(p, l, tie) ==
    ReportFrame("get_inventory_levels", p, l, NULL, NULL, NULL, tie)
HistoryFrame(p, l, start_date, end_date, limit, tie) ==
    ReportFrame("get_transaction_history", p, l, start_date, end_date, limit, tie)
LowStockFrame(tie) ==
    ReportFrame("get_low_stock_items", NULL, NULL, NULL, NULL, NULL, tie)

World == [disk |-> disk, conn |-> conn, call |-> call]

\* what the caller of a finished call observes
Outcome(f) ==
    [op |-> f.op, ok |-> (f.pc = "returned"), error |-> f.error, at |-> f.at,
     rows |-> IF "rows" \in DOMAIN f THEN f.rows ELSE <<>>,
     result |-> IF f.pc # "returned" THEN 0
                ELSE IF f.op = "record_transaction" THEN f.transaction_id
                ELSE IF f.op = "get_product_quantity" THEN f.current
                ELSE 1]

\* sum of the deltas of the record_transaction calls that returned an id
Credit(f) ==
    IF f.op = "record_transaction" /\ f.pc = "returned"
    THEN [returned EXCEPT ![<<f.product_id, f.location_id>>] =
                              @ + f.quantity * f.affects]
    ELSE returned

Finish(s, c) ==
    /\ disk' = s.disk
    /\ conn' = s.conn
    /\ call' = [s.call EXCEPT ![c] = IdleCall]
    /\ last' = Outcome(s.call[c])
    /\ returned' = Credit(s.call[c])

Invoke(c, f) == Run([World EXCEPT !.call[c] = f], c)

\* ---------------------------------------------------------------- actions
FailPoints == {"none", "insert", "select", "write", "commit"}

Init ==
    /\ disk = [inventory_transactions |-> <<>>, inventory |-> <<>>]
    /\ conn = [c \in Conns |-> IdleConn]
    /\ call = [c \in Conns |-> IdleCall]
    /\ last = Outcome(IdleCall)
    /\ returned = [pr \in Pairs |-> 0]
    /\ recounts = 0

Writes == Len(disk.inventory_transactions) + recounts

RecordTransaction(p, l, t, q, failAt) ==
    /\ Writes < MaxWrites
    /\ Finish(Invoke(MainConn, Frame("record_transaction", p, l, t, q, NULL,
                                     failAt)), MainConn)
    /\ UNCHANGED recounts

UpdateInventoryQuantity(p, l, n, at, failAt) ==
    /\ Writes < MaxWrites
    /\ Finish(Invoke(MainConn, Frame("update_inventory_quantity", p, l, 0, n,
                                     at, failAt)), MainConn)
    /\ recounts' = IF last'.ok THEN recounts + 1 ELSE recounts

GetProductQuantity(p, l) ==
    /\ Finish(Invoke(MainConn, Frame("get_product_quantity", p, l, 0, 0, NULL,
                                     "none")), MainConn)
    /\ UNCHANGED recounts

\* the calls of one InventorySystem, one after the other
Next ==
    \/ \E p \in ProductIds, l \in LocationIds, t \in TypeIds, q \in Quantities :
          RecordTransaction(p, l, t, q, "none")
    \/ \E p \in ProductIds, l \in LocationIds, n \in NewQuantities,
          at \in CountedAts :
          UpdateInventoryQuantity(p, l, n, at, "none")
    \/ \E p \in ProductIds, l \in LocationIds : GetProductQuantity(p, l)

Spec == Init /\ [][Next]_vars

\* the write calls alone, on ids that may be unknown to the master data
IdTypeIds == {1, 2, 3}
IdQuantities == {1, 2}
NextIds ==
    \/ \E p \in ProductIds, l \in LocationIds, t \in IdTypeIds,
          q \in IdQuantities :
          RecordTransaction(p, l, t, q, "none")
    \/ \E p \in ProductIds, l \in LocationIds, n \in NewQuantities,
          at \in CountedAts :
          UpdateInventoryQuantity(p, l, n, at, "none")

SpecIds == Init /\ [][NextIds]_vars

\* the same calls on valid ids, with a storage error injected at one statement
FaultTypeIds == {1, 2, 3, 99}
FaultQuantities == {1, 2}
NextFault ==
    \/ \E p \in Stocked, l \in Locations, t \in FaultTypeIds,
          q \in FaultQuantities, failAt \in FailPoints :
          RecordTransaction(p, l, t, q, failAt)
    \/ \E p \in Stocked, l \in Locations, n \in NewQuantities,
          at \in CountedAts, failAt \in FailPoints \ {"insert"} :
          UpdateInventoryQuantity(p, l, n, at, failAt)
    \/ \E p \in Stocked, l \in Locations : GetProductQuantity(p, l)

SpecFault == Init /\ [][NextFault]_vars

\* two InventorySystem instances on the same database file, statement by statement
ConcTypeIds == {1, 2}
ConcQuantities == {1, 2}
InFlight == Cardinality({c \in Conns : call[c].op # "idle"})

Call(c, p, l, t, q) ==
    /\ call[c].op = "idle"
    /\ Len(disk.inventory_transactions) + InFlight < MaxCalls
    /\ call' = [call EXCEPT ![c] = Frame("record_transaction", p, l, t, q,
                                         NULL, "none")]
    /\ UNCHANGED <<disk, conn, last, returned, recounts>>

Statement(c) ==
    /\ ~Done(call[c])
    /\ LET s == Step(World, c)
       IN /\ disk' = s.disk
          /\ conn' = s.conn
          /\ call' = s.call
    /\ UNCHANGED <<last, returned, recounts>>

Return(c) ==
    /\ call[c].pc \in {"returned", "raised"}
    /\ Finish(World, c)
    /\ UNCHANGED recounts

NextConc ==
    \E c \in Conns :
        \/ \E p \in Stocked, l \in Locations, t \in ConcTypeIds,
              q \in ConcQuantities : Call(c, p, l, t, q)
        \/ Statement(c)
        \/ Return(c)

SpecConc == Init /\ [][NextConc]_vars

\* two InventorySystem processes on one database file: receipts are recorded
\* on one connection while stock is counted on the other, statement by
\* statement
CountConn == CHOOSE c \in Conns : c # MainConn
RaceTypeIds == {1}
RaceQuantities == {1, 2}
RaceCounts == {1, 2}
RaceCalls == Len(disk.inventory_transactions) + recounts + InFlight

Receive(c, p, l, t, q) ==
    /\ RaceCalls < MaxCalls
    /\ Call(c, p, l, t, q)

Recount(c, p, l, n) ==
    /\ call[c].op = "idle"
    /\ RaceCalls < MaxCalls
    /\ call' = [call EXCEPT ![c] = Frame("update_inventory_quantity", p, l, 0,
                                         n, NULL, "none")]
    /\ UNCHANGED <<disk, conn, last, returned, recounts>>

Counted(c) ==
    /\ call[c].pc \in {"returned", "raised"}
    /\ Finish(World, c)
    /\ recounts' = IF call[c].op = "update_inventory_quantity"
                      /\ call[c].pc = "returned"
                   THEN recounts + 1 ELSE recounts

NextRace ==
    \/ \E p \in Stocked, l \in Locations, t \in RaceTypeIds,
          q \in RaceQuantities : Receive(MainConn, p, l, t, q)
    \/ \E p \in Stocked, l \in Locations, n \in RaceCounts :
          Recount(CountConn, p, l, n)
    \/ \E c \in Conns : Statement(c)
    \/ \E c \in Conns : Counted(c)

SpecRace == Init /\ [][NextRace]_vars

\* the interactive shell: the 'transaction' command and the initial-inventory
\* step of 'add_product', on the values the user types
\* InventoryCLI.do_transaction: each prompt returns on a value it refuses
DoTransaction(p, l, t, q) ==
    /\ Writes < MaxWrites
    /\ IF \/ p \notin Products          \* "Product with ID ... not found."
          \/ l \notin Locations         \* "Location with ID ... not found."
          \/ t < 1 \/ t > 8             \* "Invalid transaction type ID."
          \/ q <= 0                     \* "Quantity must be positive."
       THEN UNCHANGED vars
       ELSE /\ Finish(Invoke(MainConn, Frame("record_transaction", p, l, t, q,
                                             NULL, "none")), MainConn)
            /\ UNCHANGED recounts

\* InventoryCLI.do_add_product, for the product id that add_product returned:
\* location and quantity go to record_transaction as int() parsed them
DoAddProduct(p, add_inventory, l, q) ==
    /\ Writes < MaxWrites
    /\ IF ~add_inventory
       THEN UNCHANGED vars
       ELSE /\ Finish(Invoke(MainConn, Frame("record_transaction", p, l, 1, q,
                                             NULL, "none")), MainConn)
            /\ UNCHANGED recounts

NextCli ==
    \/ \E p \in ProductIds, l \in LocationIds, t \in TypeIds, q \in Quantities :
          DoTransaction(p, l, t, q)
    \/ \E p \in Products, add_inventory \in BOOLEAN, l \in LocationIds,
          q \in Quantities :
          DoAddProduct(p, add_inventory, l, q)

SpecCli == Init /\ [][NextCli]_vars

\* one InventorySystem recording dated transactions and reading the reports;
\* transaction_date is text in the format of Now, ordered as the seconds are
ReportPairs == {<<1, 1>>, <<1, 2>>, <<2, 1>>}   \* the paper is kept in one place
ReportTypeIds == {1, 2}
ReportQuantities == {1}
ReportDates == {NULL, Now + 1}
ReportLimits == {1, DefaultLimit}
LedgerTies == Ties(Len(disk.inventory_transactions))
InventoryTies == Ties(Len(disk.inventory))
ProductTies == Ties(Cardinality(Products))

RecordTransactionAt(p, l, t, q, date) ==
    /\ Writes < MaxWrites
    /\ Finish(Invoke(MainConn, DatedFrame(p, l, t, q, date)), MainConn)
    /\ UNCHANGED recounts

GetInventoryLevels(p, l, tie) ==
    /\ Finish(Invoke(MainConn, LevelsFrame(p, l, tie)), MainConn)
    /\ UNCHANGED recounts

GetTransactionHistory(p, l, start_date, end_date, limit, tie) ==
    /\ Finish(Invoke(MainConn, HistoryFrame(p, l, start_date, end_date, limit,
                                            tie)), MainConn)
    /\ UNCHANGED recounts

GetLowStockItems(tie) ==
    /\ Finish(Invoke(MainConn, LowStockFrame(tie)), MainConn)
    /\ UNCHANGED recounts

NextReport ==
    \/ \E pr \in ReportPairs, t \in ReportTypeIds, q \in ReportQuantities,
          date \in ReportDates :
          RecordTransactionAt(pr[1], pr[2], t, q, date)
    \/ \E tie \in InventoryTies : GetInventoryLevels(NULL, NULL, tie)
    \/ \E limit \in ReportLimits, tie \in LedgerTies :
          GetTransactionHistory(NULL, NULL, NULL, NULL, limit, tie)
    \/ \E tie \in ProductTies : GetLowStockItems(tie)

SpecReport == Init /\ [][NextReport]_vars

\* ================================================================= claims
Ledger == disk.inventory_transactions
Inventory == disk.inventory
Delta(e) == e.quantity * affects_inventory(e.transaction_type_id)

RECURSIVE LedgerSum(_, _, _)
LedgerSum(led, p, l) ==
    IF led = <<>> THEN 0
    ELSE LET e == led[Len(led)]
         IN LedgerSum(SubSeq(led, 1, Len(led) - 1), p, l)
            + (IF e.product_id = p /\ e.location_id = l THEN Delta(e) ELSE 0)

IsPrefix(a, b) == Len(a) <= Len(b) /\ \A i \in 1 .. Len(a) : b[i] = a[i]

\* C1: as long as no recount has been made, the quantity of every (product,
\* location) pair is the sum of quantity * affects_inventory over the ledger
\* entries of that pair.
C1_ProjectionIsFold ==
    recounts = 0 =>
        \A pr \in Pairs :
            get_product_quantity(disk, pr[1], pr[2]) = LedgerSum(Ledger, pr[1], pr[2])

\* Purchase(2) then Sale(1) on one pair leaves 1
C1_Witness ==
    /\ recounts = 0
    /\ Len(Ledger) = 2
    /\ \A i \in 1 .. 2 : Ledger[i].product_id = 1 /\ Ledger[i].location_id = 1
    /\ Ledger[1].transaction_type_id = 1 /\ Ledger[1].quantity = 2
    /\ Ledger[2].transaction_type_id = 2 /\ Ledger[2].quantity = 1
    /\ get_product_quantity(disk, 1, 1) = 1

\* C2: a record_transaction call persists its ledger entry together with its
\* projection update, or, when any statement fails, persists nothing, leaves
\* nothing uncommitted behind and returns no transaction id.
C2_RecordAtomic ==
    [][last'.op = "record_transaction" =>
        IF last'.ok
        THEN /\ Len(Ledger') = Len(Ledger) + 1
             /\ IsPrefix(Ledger, Ledger')
             /\ Ledger'[Len(Ledger')].transaction_id = last'.result
             /\ LET e == Ledger'[Len(Ledger')]
                IN \A pr \in Pairs :
                     get_product_quantity(disk', pr[1], pr[2]) =
                       get_product_quantity(disk, pr[1], pr[2])
                       + (IF pr = <<e.product_id, e.location_id>>
                          THEN Delta(e) ELSE 0)
        ELSE /\ disk' = disk
             /\ conn'[MainConn].pending = <<>>
             /\ last'.result = 0]_vars

\* a call failed after its ledger insert, on a database that holds entries
C2_Witness ==
    /\ last.op = "record_transaction"
    /\ ~last.ok
    /\ last.at \in {"rt_select", "rt_write", "rt_commit"}
    /\ Len(Ledger) >= 1
    /\ Inventory # <<>>

\* C3: from every reachable state, a record_transaction call whose type id is
\* not in the registry raises the invalid-type error at the type lookup, the
\* first statement after BEGIN, and leaves the ledger and the projection
\* unchanged, with nothing uncommitted behind.
C3_InvalidTypeRejected ==
    \A p \in ProductIds, l \in LocationIds, q \in Quantities,
       t \in TypeIds \ TransactionTypeIds :
        \A r \in {Invoke(MainConn, Frame("record_transaction", p, l, t, q,
                                         NULL, "none"))} :
            /\ r.call[MainConn].pc = "raised"
            /\ r.call[MainConn].error = "ValueError"
            /\ r.call[MainConn].at = "rt_lookup"
            /\ r.disk = disk
            /\ r.conn[MainConn].pending = <<>>

\* the invalid-type error was raised on a database that holds a ledger entry
C3_Witness ==
    /\ last.op = "record_transaction"
    /\ last.error = "ValueError"
    /\ Len(Ledger) >= 1
    /\ Inventory # <<>>

\* C4: every ledger entry has quantity > 0 (a record_transaction call with a
\* zero or negative quantity is rejected and appends nothing).
C4_QuantityPositive == \A i \in 1 .. Len(Ledger) : Ledger[i].quantity > 0

\* C5: whenever no call is running, the committed quantity of every pair is
\* the sum of the deltas of the record_transaction calls that returned an id,
\* whatever the interleaving of their statements was.
Quiescent == \A c \in Conns : call[c].op = "idle"
C5_NoLostUpdate ==
    Quiescent =>
        \A pr \in Pairs : get_product_quantity(disk, pr[1], pr[2]) = returned[pr]

\* two calls on the same pair were in progress together and both committed
\* onto a row a third call had created
C5_Witness ==
    /\ \A c \in Conns : call[c].pc = "returned" /\ call[c].found
    /\ \A c, d \in Conns : /\ call[c].product_id = call[d].product_id
                           /\ call[c].location_id = call[d].location_id
    /\ Len(Ledger) = 3

\* C6: from every reachable state, a Transfer Out of q > 0 at location a and a
\* Transfer In of q at location b, in either order, both succeed and leave the
\* quantity of the product summed over a and b as it was.
After(s, f) == Run([s EXCEPT !.call[MainConn] = f], MainConn)
TransferOut(p, l, q) == Frame("record_transaction", p, l, 5, q, NULL, "none")
TransferIn(p, l, q) == Frame("record_transaction", p, l, 4, q, NULL, "none")
C6_TransferConserves ==
    \A p \in Stocked, a \in Locations, b \in Locations, q \in Quantities,
       outFirst \in BOOLEAN :
        (a # b /\ q > 0) =>
            LET leg1 == IF outFirst THEN TransferOut(p, a, q)
                        ELSE TransferIn(p, b, q)
                leg2 == IF outFirst THEN TransferIn(p, b, q)
                        ELSE TransferOut(p, a, q)
                Total(db) == get_product_quantity(db, p, a)
                             + get_product_quantity(db, p, b)
            IN \A r1 \in {After(World, leg1)} :
                 \A r2 \in {After(r1, leg2)} :
                    /\ r1.call[MainConn].pc = "returned"
                    /\ r2.call[MainConn].pc = "returned"
                    /\ Total(r2.disk) = Total(disk)

\* Transfer Out(2) at location 1 then Transfer In(2) at location 2 were recorded
C6_Witness ==
    /\ Len(Ledger) = 2
    /\ Ledger[1].transaction_type_id = 5 /\ Ledger[1].location_id = 1
    /\ Ledger[2].transaction_type_id = 4 /\ Ledger[2].location_id = 2
    /\ Ledger[1].quantity = 2 /\ Ledger[2].quantity = 2
    /\ get_product_quantity(disk, 1, 1) = 0 - 2
    /\ get_product_quantity(disk, 1, 2) = 2

\* C7: from every reachable state, update_inventory_quantity on a valid pair
\* succeeds, and afterwards the quantity read back is new_quantity and
\* last_counted_at of the pair's row is set.
C7_RecountOverwrites ==
    \A p \in Stocked, l \in Locations, n \in NewQuantities, at \in CountedAts :
        \A r \in {Invoke(MainConn, Frame("update_inventory_quantity", p, l, 0,
                                         n, at, "none"))} :
            /\ r.call[MainConn].pc = "returned"
            /\ get_product_quantity(r.disk, p, l) = n
            /\ \A i \in 1 .. Len(r.disk.inventory) :
                  (/\ r.disk.inventory[i].product_id = p
                   /\ r.disk.inventory[i].location_id = l)
                      => r.disk.inventory[i].last_counted_at # NULL

\* C8: the inventory table holds at most one row per (product, location) pair.
C8_OneRowPerPair ==
    \A i, j \in 1 .. Len(Inventory) :
        (/\ Inventory[i].product_id = Inventory[j].product_id
         /\ Inventory[i].location_id = Inventory[j].location_id) => i = j

\* both pairs have a row, one made by a transaction and one by a recount
C8_Witness ==
    /\ Len(Inventory) = 2
    /\ Len(Ledger) = 1
    /\ recounts = 1

\* C9: every step keeps the committed ledger as a prefix of the new ledger.
C9_LedgerAppendOnly == [][IsPrefix(Ledger, Ledger')]_vars

\* a recount succeeded on a database whose ledger holds an entry
C9_Witness ==
    /\ last.op = "update_inventory_quantity"
    /\ last.ok
    /\ Len(Ledger) >= 1

\* C10: from every reachable state, get_product_quantity returns the quantity
\* of the pair's row, or 0 when the pair has no row, and changes neither table
\* nor the connection.
C10_QuantityReadOnly ==
    \A p \in ProductIds, l \in LocationIds :
        \A r \in {Invoke(MainConn, Frame("get_product_quantity", p, l, 0, 0,
                                         NULL, "none"))} :
            LET out == Outcome(r.call[MainConn])
                rows == {i \in 1 .. Len(Inventory) :
                            /\ Inventory[i].product_id = p
                            /\ Inventory[i].location_id = l}
            IN /\ out.ok
               /\ \A i \in rows : out.result = Inventory[i].quantity
               /\ rows = {} => out.result = 0
               /\ r.disk = disk
               /\ r.conn = conn

\* a read returned the quantity of the one row while the other pair has none
C10_Witness ==
    /\ last.op = "get_product_quantity"
    /\ last.ok
    /\ last.result # 0
    /\ Len(Inventory) = 1

\* C11: from every reachable state, a record_transaction call of a registered
\* type whose product id or location id is not in the master data raises the
\* storage layer's integrity error at the ledger INSERT and leaves the ledger
\* and the inventory table unchanged, with nothing uncommitted behind.
C11_UnknownIdRejected ==
    \A p \in ProductIds, l \in LocationIds, q \in IdQuantities,
       t \in TypeIds \cap TransactionTypeIds :
        (p \notin Products \/ l \notin Locations) =>
            \A r \in {Invoke(MainConn, Frame("record_transaction", p, l, t, q,
                                             NULL, "none"))} :
                /\ r.call[MainConn].pc = "raised"
                /\ r.call[MainConn].error = "IntegrityError"
                /\ r.call[MainConn].at = "rt_insert"
                /\ Outcome(r.call[MainConn]).result = 0
                /\ r.disk = disk
                /\ r.conn[MainConn].pending = <<>>

\* the integrity error was raised by the ledger INSERT on a database that
\* holds a ledger entry and an inventory row
C11_Witness ==
    /\ last.op = "record_transaction"
    /\ last.error = "IntegrityError"
    /\ last.at = "rt_insert"
    /\ Len(Ledger) >= 1
    /\ Inventory # <<>>

\* C12: from every reachable state, get_low_stock_items returns one row for
\* each product whose quantities summed over all locations are strictly
\* below its min_stock_level, and no row for any other product.
RECURSIVE StockOver(_, _, _)
StockOver(db, p, locs) ==
    IF locs = {} THEN 0
    ELSE LET l == CHOOSE x \in locs : TRUE
         IN get_product_quantity(db, p, l) + StockOver(db, p, locs \ {l})

C12_LowStockMembership ==
    \A tie \in ProductTies :
        \A r \in {Invoke(MainConn, LowStockFrame(tie))} :
            LET rows == r.call[MainConn].rows
                low == {p \in Products :
                          StockOver(disk, p, Locations) < min_stock_level(p)}
            IN /\ r.call[MainConn].pc = "returned"
               /\ {rows[i].product_id : i \in 1 .. Len(rows)} = low
               /\ Len(rows) = Cardinality(low)

\* a Purchase raised product 1 to its minimum, a Sale dropped it below again,
\* and the report that followed lists it
C12_Witness ==
    /\ last.op = "get_low_stock_items"
    /\ Len(Ledger) = 2
    /\ Ledger[1].product_id = 1 /\ Ledger[1].transaction_type_id = 1
    /\ Ledger[2].product_id = 1 /\ Ledger[2].transaction_type_id = 2
    /\ \E i \in 1 .. Len(last.rows) : last.rows[i].product_id = 1
\* C13: from every reachable state, when a record_transaction call (which may
\* fail at any statement) is followed by a successful one, the id the second
\* returns is greater than every id in the ledger before the two calls and
\* greater than the id the first returned, and no two ledger entries carry
\* the same id.
C13_IdsIncrease ==
    \A p \in Stocked, l \in Locations, q \in FaultQuantities,
       t \in FaultTypeIds \cap TransactionTypeIds, failAt \in FailPoints :
        \A r1 \in {After(World, Frame("record_transaction", p, l, t, q, NULL,
                                      failAt))} :
          \A r2 \in {After(r1, Frame("record_transaction", p, l, t, q, NULL,
                                     "none"))} :
            LET first == Outcome(r1.call[MainConn])
                second == Outcome(r2.call[MainConn])
                led == r2.disk.inventory_transactions
            IN /\ second.ok
               /\ \A i \in 1 .. Len(Ledger) :
                      Ledger[i].transaction_id < second.result
               /\ first.ok =>
                      /\ first.result < second.result
                      /\ \A i \in 1 .. Len(Ledger) :
                             Ledger[i].transaction_id < first.result
               /\ led[Len(led)].transaction_id = second.result
               /\ \A i, j \in 1 .. Len(led) :
                      led[i].transaction_id = led[j].transaction_id => i = j

\* a second transaction id was returned, above the first
C13_Witness ==
    /\ last.op = "record_transaction"
    /\ last.ok
    /\ last.result = 2
    /\ Len(Ledger) = 2
    /\ Ledger[1].transaction_id = 1 /\ Ledger[2].transaction_id = 2

\* C14: from every reachable state, a record_transaction call that returns
\* has appended exactly one entry to the ledger, the one whose id it returns,
\* kept every earlier entry, and changed the inventory table in at most one
\* row, the row of the call's (product, location) pair: every other row is as
\* it was, and a row is added only for that pair.
C14_RecordFrame ==
    \A p \in Stocked, l \in Locations, q \in FaultQuantities,
       t \in FaultTypeIds \cap TransactionTypeIds :
        \A r \in {Invoke(MainConn, Frame("record_transaction", p, l, t, q,
                                         NULL, "none"))} :
            LET led == r.disk.inventory_transactions
                inv == r.disk.inventory
                OfPair(row) == row.product_id = p /\ row.location_id = l
            IN /\ r.call[MainConn].pc = "returned"
               /\ Len(led) = Len(Ledger) + 1
               /\ SubSeq(led, 1, Len(Ledger)) = Ledger
               /\ led[Len(led)].transaction_id = Outcome(r.call[MainConn]).result
               /\ led[Len(led)].product_id = p /\ led[Len(led)].location_id = l
               /\ Len(inv) \in {Len(Inventory), Len(Inventory) + 1}
               /\ \A i \in 1 .. Len(Inventory) :
                      \/ inv[i] = Inventory[i]
                      \/ OfPair(Inventory[i]) /\ OfPair(inv[i])
               /\ Len(inv) > Len(Inventory) =>
                      /\ OfPair(inv[Len(inv)])
                      /\ \A i \in 1 .. Len(Inventory) : inv[i] = Inventory[i]

\* a transaction was recorded for one pair while the other pair has a row,
\* made by a recount
C14_Witness ==
    /\ last.op = "record_transaction"
    /\ last.ok
    /\ Len(Ledger) = 1
    /\ Len(Inventory) = 2
    /\ \E i \in 1 .. 2 : /\ Inventory[i].location_id # Ledger[1].location_id
                          /\ Inventory[i].last_counted_at # NULL

\* C15: from every reachable state, a record_transaction call of a decreasing
\* type whose quantity exceeds the quantity of the pair (0 when the pair has
\* no row) returns, and leaves the pair with a row whose quantity is the
\* negative number current - quantity.
C15_NoFloor ==
    \A p \in Stocked, l \in Locations, q \in FaultQuantities,
       t \in TypeIds \cap TransactionTypeIds :
        LET current == get_product_quantity(disk, p, l)
        IN (affects_inventory(t) < 0 /\ q > current) =>
            \A r \in {Invoke(MainConn, Frame("record_transaction", p, l, t, q,
                                             NULL, "none"))} :
                /\ r.call[MainConn].pc = "returned"
                /\ SelectInventory(r.disk, p, l) # <<>>
                /\ get_product_quantity(r.disk, p, l) = current - q
                /\ get_product_quantity(r.disk, p, l) < 0

\* Purchase(1) then Sale(2) on one pair were recorded and left it at -1
C15_Witness ==
    /\ last.op = "record_transaction"
    /\ last.ok
    /\ Len(Ledger) = 2
    /\ Ledger[1].transaction_type_id = 1 /\ Ledger[1].quantity = 1
    /\ Ledger[2].transaction_type_id = 2 /\ Ledger[2].quantity = 2
    /\ Ledger[1].location_id = Ledger[2].location_id
    /\ get_product_quantity(disk, Ledger[2].product_id,
                            Ledger[2].location_id) = 0 - 1

\* C19: from every reachable state, a record_transaction call of a type whose
\* affects_inventory is 0 returns the id of the ledger entry it appended and
\* leaves the inventory table as it was; a call of a type whose
\* affects_inventory is not 0, on a pair with no row, appends one row for the
\* pair with quantity = quantity * affects_inventory.
C19_NoEffectType ==
    \A p \in Stocked, l \in Locations, q \in FaultQuantities,
       t \in FaultTypeIds \cap TransactionTypeIds :
        \A r \in {Invoke(MainConn, Frame("record_transaction", p, l, t, q,
                                         NULL, "none"))} :
            LET led == r.disk.inventory_transactions
                inv == r.disk.inventory
            IN /\ r.call[MainConn].pc = "returned"
               /\ affects_inventory(t) = 0 =>
                      /\ inv = Inventory
                      /\ Len(led) = Len(Ledger) + 1
                      /\ led[Len(led)].transaction_type_id = t
                      /\ led[Len(led)].transaction_id =
                             Outcome(r.call[MainConn]).result
               /\ (affects_inventory(t) # 0
                   /\ SelectInventory(disk, p, l) = <<>>) =>
                      /\ Len(inv) = Len(Inventory) + 1
                      /\ SubSeq(inv, 1, Len(Inventory)) = Inventory
                      /\ inv[Len(inv)].product_id = p
                      /\ inv[Len(inv)].location_id = l
                      /\ inv[Len(inv)].quantity = q * affects_inventory(t)

\* an Adjustment was recorded for a pair without a row, after a Purchase had
\* made the row of the other pair
C19_Witness ==
    /\ last.op = "record_transaction"
    /\ last.ok
    /\ Len(Ledger) = 2
    /\ Ledger[1].transaction_type_id = 1
    /\ Ledger[2].transaction_type_id = 3
    /\ Ledger[1].location_id # Ledger[2].location_id
    /\ Len(Inventory) = 1
    /\ Inventory[1].location_id = Ledger[1].location_id
    /\ Inventory[1].quantity = Ledger[1].quantity

\* C20: every step, of a call that returns or of one that fails, keeps a row
\* for every (product, location) pair that had one.
C20_RowNeverDeleted ==
    [][\A pr \in Pairs :
          SelectInventory(disk, pr[1], pr[2]) # <<>> =>
              SelectInventory(disk', pr[1], pr[2]) # <<>>]_vars

\* a recount failed on a database that holds a row whose quantity is 0
C20_Witness ==
    /\ last.op = "update_inventory_quantity"
    /\ ~last.ok
    /\ \E i \in 1 .. Len(Inventory) : Inventory[i].quantity = 0

\* C16: from every reachable state, get_transaction_history returns, without
\* changing the database, ledger entries that match every filter passed
\* (product, location, start date, end date), each at most once, ordered by
\* transaction_date from the newest down, and as many of them as match or
\* limit (100 when omitted) if fewer; no matching entry left out is newer
\* than a returned one.
HistoryProducts == {NULL, 1}
HistoryLocations == {NULL, 2}
HistoryFrom == {NULL, Now + 1}
HistoryTo == {NULL, Now}
HistoryLimits == {0, 1, 2, DefaultLimit}
C16_HistoryNewestFirst ==
    \A p \in HistoryProducts, l \in HistoryLocations, from \in HistoryFrom,
       to \in HistoryTo, limit \in HistoryLimits, tie \in LedgerTies :
        \A r \in {Invoke(MainConn, HistoryFrame(p, l, from, to, limit, tie))} :
            LET rows == r.call[MainConn].rows
                Matches(e) == /\ p # NULL => e.product_id = p
                              /\ l # NULL => e.location_id = l
                              /\ from # NULL => e.transaction_date >= from
                              /\ to # NULL => e.transaction_date <= to
                matching == {i \in 1 .. Len(Ledger) : Matches(Ledger[i])}
                shown == {rows[i].transaction_id : i \in 1 .. Len(rows)}
            IN /\ r.call[MainConn].pc = "returned"
               /\ r.disk = disk
               /\ \A i \in 1 .. Len(rows) :
                      /\ rows[i].transaction_id \in matching
                      /\ rows[i] = Ledger[rows[i].transaction_id]
               /\ Cardinality(shown) = Len(rows)
               /\ \A i \in 1 .. Len(rows) - 1 :
                      rows[i].transaction_date >= rows[i + 1].transaction_date
               /\ Len(rows) = IF Cardinality(matching) < limit
                              THEN Cardinality(matching) ELSE limit
               /\ \A i \in matching \ shown : \A j \in 1 .. Len(rows) :
                      Ledger[i].transaction_date <= rows[j].transaction_date

\* the ledger holds an entry and then an older, back-dated one; a history
\* read with limit 1 returned the first
C16_Witness ==
    /\ last.op = "get_transaction_history"
    /\ Len(Ledger) = 2
    /\ Ledger[1].transaction_date > Ledger[2].transaction_date
    /\ last.rows = <<Ledger[1]>>

\* C17: from every reachable state, two get_inventory_levels calls with the
\* same filters, one after the other, return the same rows, and neither
\* changes the ledger, the inventory table or the connection.
C17_LevelsIdempotent ==
    \A p \in {NULL} \cup Products, l \in {NULL} \cup Locations,
       tie \in InventoryTies :
        \A r1 \in {After(World, LevelsFrame(p, l, tie))} :
          \A r2 \in {After(r1, LevelsFrame(p, l, tie))} :
            /\ r1.call[MainConn].pc = "returned"
            /\ r2.call[MainConn].pc = "returned"
            /\ r2.call[MainConn].rows = r1.call[MainConn].rows
            /\ r1.disk = disk /\ r2.disk = disk
            /\ r1.conn = conn /\ r2.conn = conn

\* a levels read returned the rows of two pairs
C17_Witness ==
    /\ last.op = "get_inventory_levels"
    /\ last.ok
    /\ Len(last.rows) = 2
    /\ Len(Ledger) = 2

\* C18: from every reachable state, in the rows get_low_stock_items returns
\* every row has a quantity_to_order greater than or equal to that of the
\* row after it.
C18_LowStockSorted ==
    \A tie \in ProductTies :
        \A r \in {Invoke(MainConn, LowStockFrame(tie))} :
            LET rows == r.call[MainConn].rows
            IN /\ r.call[MainConn].pc = "returned"
               /\ \A i \in 1 .. Len(rows) - 1 :
                      rows[i].quantity_to_order >= rows[i + 1].quantity_to_order

\* a report of two rows with different quantities to order was returned
\* after a transaction was recorded
C18_Witness ==
    /\ last.op = "get_low_stock_items"
    /\ Len(Ledger) >= 1
    /\ Len(last.rows) = 2
    /\ last.rows[1].quantity_to_order > last.rows[2].quantity_to_order

\* C21: from every reachable state, an update_inventory_quantity call, whether
\* it returns or fails at any statement, leaves the ledger as it was and
\* leaves every inventory row of another (product, location) pair as it was;
\* a row it adds is the row of its own pair.
C21_RecountBypassesLedger ==
    \A p \in ProductIds, l \in LocationIds, n \in NewQuantities,
       at \in CountedAts, failAt \in FailPoints \ {"insert"} :
        \A r \in {Invoke(MainConn, Frame("update_inventory_quantity", p, l, 0,
                                         n, at, failAt))} :
            LET inv == r.disk.inventory
                OfPair(row) == row.product_id = p /\ row.location_id = l
            IN /\ r.call[MainConn].pc \in {"returned", "raised"}
               /\ r.disk.inventory_transactions = Ledger
               /\ r.conn[MainConn].pending = <<>>
               /\ Len(inv) \in {Len(Inventory), Len(Inventory) + 1}
               /\ \A i \in 1 .. Len(Inventory) :
                      \/ inv[i] = Inventory[i]
                      \/ OfPair(Inventory[i]) /\ OfPair(inv[i])
               /\ Len(inv) > Len(Inventory) => OfPair(inv[Len(inv)])
               /\ r.call[MainConn].pc = "raised" => inv = Inventory

\* a recount overwrote the row a Purchase had made: the ledger still holds
\* the one entry, the row holds the counted quantity and its stamp
C21_Witness ==
    /\ last.op = "update_inventory_quantity"
    /\ last.ok
    /\ Len(Ledger) = 1
    /\ Ledger[1].transaction_type_id = 1
    /\ Len(Inventory) = 1
    /\ Inventory[1].location_id = Ledger[1].location_id
    /\ Inventory[1].quantity # Ledger[1].quantity
    /\ Inventory[1].last_counted_at # NULL

\* C22: from every reachable state, whatever the ledger already holds, a
\* successful update_inventory_quantity(P, L, n) followed by one or two
\* successful record_transaction calls on any pairs leaves
\* get_product_quantity(P, L) = n + the sum of the deltas of the entries of
\* (P, L) appended after the recount.
C22_RecountIsBase ==
    \A p \in Stocked, l \in Locations, n \in NewQuantities :
      \A r0 \in {After(World, Frame("update_inventory_quantity", p, l, 0, n,
                                     NULL, "none"))} :
        r0.call[MainConn].pc = "returned" =>
          LET Later(db) == SubSeq(db.inventory_transactions, Len(Ledger) + 1,
                                  Len(db.inventory_transactions))
              Based(r, k) ==
                  /\ r.call[MainConn].pc = "returned"
                  /\ Len(Later(r.disk)) = k
                  /\ get_product_quantity(r.disk, p, l)
                        = n + LedgerSum(Later(r.disk), p, l)
          IN /\ Based(r0, 0)
             /\ \A l1 \in Locations, t1 \in IdTypeIds, q1 \in IdQuantities :
                  \A r1 \in {After(r0, Frame("record_transaction", p, l1, t1,
                                             q1, NULL, "none"))} :
                    /\ Based(r1, 1)
                    /\ \A l2 \in Locations, t2 \in IdTypeIds,
                          q2 \in IdQuantities :
                         Based(After(r1, Frame("record_transaction", p, l2,
                                               t2, q2, NULL, "none")), 2)

\* a pair was recounted and a Sale was recorded on it afterwards: its row
\* carries the stamp of the count and a quantity below the count
C22_Witness ==
    /\ recounts = 1
    /\ last.op = "record_transaction"
    /\ last.ok
    /\ Len(Ledger) = 1
    /\ Ledger[1].transaction_type_id = 2
    /\ \E i \in 1 .. Len(Inventory) :
          /\ Inventory[i].product_id = Ledger[1].product_id
          /\ Inventory[i].location_id = Ledger[1].location_id
          /\ Inventory[i].last_counted_at # NULL
          /\ Inventory[i].quantity = 2 - Ledger[1].quantity

\* C23: with receipts and counts (all of positive quantities, so that every
\* row that exists holds a positive quantity) running on two connections
\* statement by statement, a count never fails on the existence of its row:
\* no update_inventory_quantity call ends in an IntegrityError, and each
\* (product, location) pair has at most one inventory row.
C23_RecountAtomic ==
    /\ \A c \in Conns :
          (call[c].op = "update_inventory_quantity" /\ call[c].pc = "raised")
              => call[c].error # "IntegrityError"
    /\ \A i, j \in 1 .. Len(Inventory) :
          (/\ Inventory[i].product_id = Inventory[j].product_id
           /\ Inventory[i].location_id = Inventory[j].location_id) => i = j

\* C24: every entry that the commands of the shell ('transaction' and the
\* initial inventory of 'add_product') have put into the ledger has a
\* quantity > 0 and a transaction type in 1..8.
C24_CliQuantityPositive ==
    \A i \in 1 .. Len(Ledger) :
        /\ Ledger[i].transaction_type_id \in TransactionTypeIds
        /\ ~(Ledger[i].quantity <= 0)

\* C25: from every reachable state, a record_transaction that fails (unknown
\* type, unknown product, or a storage error at any of its statements)
\* leaves the connection with no open transaction and the database as it
\* was; the next record_transaction or update_inventory_quantity then ends
\* exactly as it would have without the failed call, a valid
\* record_transaction returns, and what is committed is one ledger entry more
\* than before the failed call.
C25_FailureLeavesNoTransaction ==
    LET Failing == {<<1, 99, "none">>, <<3, 1, "none">>}
                   \cup {<<1, 1, x>> : x \in FailPoints \ {"none"}}
        Following ==
            {Frame("record_transaction", p, l, t, 1, NULL, "none") :
                 p \in Stocked, l \in Locations, t \in IdTypeIds}
            \cup {Frame("update_inventory_quantity", p, l, 0, n, NULL, "none") :
                      p \in Stocked, l \in Locations, n \in NewQuantities}
    IN \A bad \in Failing, l \in Locations :
         \A r1 \in {After(World, Frame("record_transaction", bad[1], l, bad[2],
                                       2, NULL, bad[3]))} :
            /\ r1.call[MainConn].pc = "raised"
            /\ r1.conn[MainConn] = IdleConn
            /\ r1.disk = disk
            /\ \A f \in Following :
                 \A r2 \in {After(r1, f)}, alone \in {After(World, f)} :
                    /\ r2.call[MainConn] = alone.call[MainConn]
                    /\ r2.disk = alone.disk
                    /\ r2.conn[MainConn] = IdleConn
                    /\ f.op = "record_transaction" =>
                          /\ r2.call[MainConn].pc = "returned"
                          /\ Len(r2.disk.inventory_transactions)
                                = Len(Ledger) + 1

\* a record_transaction failed at its commit after an earlier one had
\* succeeded: the connection is idle and the database holds the first only
C25_Witness ==
    /\ last.op = "record_transaction"
    /\ ~last.ok
    /\ last.error = "OperationalError"
    /\ last.at = "rt_commit"
    /\ conn[MainConn] = IdleConn
    /\ Len(Ledger) = 1
    /\ Len(Inventory) = 1

====
